---- MODULE Spec2Model ----
(***************************************************************************)
(* The skill-learning loop of examples/litellm/simple_ace_example.py       *)
(* (main, update_recent_reflections) together with the Skillbook           *)
(* operations of the ace package that main calls (tag_skill, apply_update, *)
(* save_skillbook, load on construction).  The ace package itself is not   *)
(* part of the sources at hand; its operations follow sections 3, 4.1 and  *)
(* 7 of the design document.                                               *)
(***************************************************************************)
EXTENDS Integers, Sequences, FiniteSets, TLC

VARIABLES
    pc,                 \* position of main()
    has_api_key,        \* os.getenv("ANTHROPIC_API_KEY") is set
    file,               \* content of SKILLBOOK_PATH (NoFile when absent)
    skillbook,          \* agent.skillbook: ordered sequence of skills
    recent_reflections, \* the reflection window
    results,            \* the recorded StepResults
    step_index,         \* enumerate(samples, 1) position (0 before the loop)
    agent_output,       \* locals of the loop body
    env_result,
    reflection,
    tag_pos,            \* position of `for tag in reflection.skill_tags`
    skill_manager_output,
    error,              \* stage whose exception left main(), or "none"
    appended,           \* history: every serialized reflection appended so far
    saves,              \* history: number of completed save_skillbook calls
    given_reflection,   \* history: the reflection= text of the loop's last generate call
    applies,            \* history: number of completed apply_update calls
    win_cap,            \* update_recent_reflections on its own: the capacity,
    win,                \*   the window,
    win_hist,           \*   every serialized reflection passed to it
    qc_sample,          \* build_question_context on its own: the sample,
    qc_env,             \*   the environment's result,
    qc_out              \*   the text returned

\* the state of main()
mainvars == << pc, has_api_key, file, skillbook, recent_reflections, results,
               step_index, agent_output, env_result, reflection, tag_pos,
               skill_manager_output, error, appended, saves, given_reflection, applies >>

\* the state of the helper functions taken on their own
fnvars == << win_cap, win, win_hist, qc_sample, qc_env, qc_out >>

vars == << mainvars, fnvars >>

mainvars_but_pc == << has_api_key, file, skillbook, recent_reflections, results,
                      step_index, agent_output, env_result, reflection, tag_pos,
                      skill_manager_output, error, appended, saves,
                      given_reflection, applies >>

(***************************************************************************)
(* Program constants and bounds of the model                               *)
(***************************************************************************)
REFLECTION_WINDOW == 3

total_epochs == 1

epoch == 1

\* longest reflection.skill_tags sequence the Reflector returns
MaxTags == 2

\* longest SkillUpdate the SkillManager returns
MaxOps == 2

SkillIds == {"s1", "s2"}

\* ids a Reflector may name: the known ones and one that no skill ever has
TagIds == SkillIds \cup {"unknown_id"}

Tags == {"helpful", "harmful"}

Contents == {"c1", "c2"}

None == "None"

NoFile == [exists |-> FALSE, skills |-> << >>]

samples ==
    << [question |-> "17*23", context |-> "", ground_truth |-> "391"],
       [question |-> "3x-7=20", context |-> "", ground_truth |-> None],
       [question |-> "110011", context |-> "", ground_truth |-> "51"],
       [question |-> "roadmap", context |-> "", ground_truth |-> None] >>

total_steps == Len(samples)

SeqsUpTo(S, n) == UNION { [1..k -> S] : k \in 0..n }

(***************************************************************************)
(* Skillbook (ace package)                                                 *)
(***************************************************************************)
Skill(id, content, tags) == [id |-> id, content |-> content, tags |-> tags]

skills(book) == book

Ids(book) == { book[i].id : i \in 1..Len(book) }

HasSkill(book, id) == id \in Ids(book)

IndexOf(book, id) == CHOOSE i \in 1..Len(book) : book[i].id = id

RemoveAt(book, i) == [j \in 1..(Len(book) - 1) |-> IF j < i THEN book[j] ELSE book[j + 1]]

\* variant: tagging a skill with a tag it has takes the tag off again
tag_skill_toggle(book, id, tag) ==
    [book EXCEPT ![IndexOf(book, id)].tags =
        IF tag \in @ THEN @ \ {tag} ELSE @ \cup {tag}]

\* tag_skill on an existing id: the tag joins the skill's tag set
tag_skill(book, id, tag) ==
    [book EXCEPT ![IndexOf(book, id)].tags = @ \cup {tag}]


\* variant: "add" and "merge" put a new skill in front of the others
ApplyOperation_add_in_front(book, op) ==
    CASE op.type = "add" ->
           IF HasSkill(book, op.id)
           THEN [ok |-> FALSE, book |-> book]
           ELSE [ok |-> TRUE, book |-> << Skill(op.id, op.content, op.tags) >> \o book]
      [] op.type = "merge" ->
           IF HasSkill(book, op.id)
           THEN [ok |-> TRUE,
                 book |-> [book EXCEPT ![IndexOf(book, op.id)] =
                              Skill(op.id, op.content, @.tags \cup op.tags)]]
           ELSE [ok |-> TRUE, book |-> << Skill(op.id, op.content, op.tags) >> \o book]
      [] op.type = "edit" ->
           IF HasSkill(book, op.id)
           THEN [ok |-> TRUE,
                 book |-> [book EXCEPT ![IndexOf(book, op.id)] =
                              Skill(op.id, op.content, op.tags)]]
           ELSE [ok |-> FALSE, book |-> book]
      [] op.type = "prune" ->
           IF HasSkill(book, op.id)
           THEN [ok |-> TRUE, book |-> RemoveAt(book, IndexOf(book, op.id))]
           ELSE [ok |-> FALSE, book |-> book]

\* variant: "add" inserts without looking for the id
ApplyOperation_blind_add(book, op) ==
    CASE op.type \in {"add", "merge"} ->
           [ok |-> TRUE, book |-> Append(book, Skill(op.id, op.content, op.tags))]
      [] op.type = "edit" ->
           IF HasSkill(book, op.id)
           THEN [ok |-> TRUE,
                 book |-> [book EXCEPT ![IndexOf(book, op.id)] =
                              Skill(op.id, op.content, op.tags)]]
           ELSE [ok |-> FALSE, book |-> book]
      [] op.type = "prune" ->
           IF HasSkill(book, op.id)
           THEN [ok |-> TRUE, book |-> RemoveAt(book, IndexOf(book, op.id))]
           ELSE [ok |-> FALSE, book |-> book]

\* one operation of a SkillUpdate applied to a book: [ok, book]
ApplyOperation(book, op) ==
    CASE op.type = "add" ->
           IF HasSkill(book, op.id)
           THEN [ok |-> FALSE, book |-> book]
           ELSE [ok |-> TRUE, book |-> Append(book, Skill(op.id, op.content, op.tags))]
      [] op.type = "merge" ->
           IF HasSkill(book, op.id)
           THEN [ok |-> TRUE,
                 book |-> [book EXCEPT ![IndexOf(book, op.id)] =
                              Skill(op.id, op.content, @.tags \cup op.tags)]]
           ELSE [ok |-> TRUE, book |-> Append(book, Skill(op.id, op.content, op.tags))]
      [] op.type = "edit" ->
           IF HasSkill(book, op.id)
           THEN [ok |-> TRUE,
                 book |-> [book EXCEPT ![IndexOf(book, op.id)] =
                              Skill(op.id, op.content, op.tags)]]
           ELSE [ok |-> FALSE, book |-> book]
      [] op.type = "prune" ->
           IF HasSkill(book, op.id)
           THEN [ok |-> TRUE, book |-> RemoveAt(book, IndexOf(book, op.id))]
           ELSE [ok |-> FALSE, book |-> book]

\* the operations of an update applied in order, stopping at the first failure
RECURSIVE ApplyOperations(_, _)
ApplyOperations(book, ops) ==
    IF ops = << >>
    THEN [ok |-> TRUE, book |-> book]
    ELSE LET r == ApplyOperation(book, Head(ops))
         IN  IF r.ok THEN ApplyOperations(r.book, Tail(ops)) ELSE r

\* apply_update: the whole batch or nothing (a failed batch leaves the book as it was)
apply_update(book, update) ==
    LET r == ApplyOperations(book, update)
    IN  IF r.ok THEN r ELSE [ok |-> FALSE, book |-> book]

\* the order in which a tag set is written to the file
TagOrder == << "harmful", "helpful" >>

TagList(tags) == SelectSeq(TagOrder, LAMBDA t : t \in tags)

ListTags(list) == { list[i] : i \in 1..Len(list) }

\* variant: the file is keyed by id (and so written in id order, not in book order)
save_keyed_by_id(book) ==
    LET ids == SelectSeq(<< "s1", "s2" >>, LAMBDA id : HasSkill(book, id))
    IN  [exists |-> TRUE,
         skills |-> [i \in 1..Len(ids) |->
                        [id |-> ids[i],
                         content |-> book[IndexOf(book, ids[i])].content,
                         tags |-> TagList(book[IndexOf(book, ids[i])].tags)]]]

\* save_skillbook: the ordered skills, each with id, content and its tags as a list
save(book) ==
    [exists |-> TRUE,
     skills |-> [i \in 1..Len(book) |->
                    [id |-> book[i].id, content |-> book[i].content,
                     tags |-> TagList(book[i].tags)]]]

\* ACELiteLLM(skillbook_path=...): the skills of the file, in file order
load(f) ==
    [i \in 1..Len(f.skills) |->
        Skill(f.skills[i].id, f.skills[i].content, ListTags(f.skills[i].tags))]

(***************************************************************************)
(* Helpers of simple_ace_example.py                                        *)
(***************************************************************************)
json_dumps(raw) == [json |-> raw]

Max(a, b) == IF a >= b THEN a ELSE b

Min(a, b) == IF a <= b THEN a ELSE b

\* the stop position of the Python slice s[:k] on a list of length n
SliceStop(n, k) == IF k < 0 THEN Max(n + k, 0) ELSE Min(k, n)

\* del s[:k]
DelPrefix(s, k) == SubSeq(s, SliceStop(Len(s), k) + 1, Len(s))

update_recent_reflections_N(recent, refl, N) ==
    LET serialized == json_dumps(refl.raw)
        grown == Append(recent, serialized)
    IN  IF Len(grown) > N THEN DelPrefix(grown, -N) ELSE grown

\* variant: the window is cut at the back (del recent_reflections[REFLECTION_WINDOW:])
update_recent_reflections_cut_back(recent, refl) ==
    LET grown == Append(recent, json_dumps(refl.raw))
    IN  SubSeq(grown, 1, Min(Len(grown), REFLECTION_WINDOW))

update_recent_reflections(recent, refl) ==
    update_recent_reflections_N(recent, refl, REFLECTION_WINDOW)

\* A text is the sequence of its pieces (characters, or longer pieces that are never
\* looked into).  sep.join(parts): the parts in order, sep between neighbours
RECURSIVE Join(_, _)
Join(sep, parts) ==
    IF parts = << >> THEN << >>
    ELSE IF Len(parts) = 1 THEN parts[1]
    ELSE parts[1] \o sep \o Join(sep, Tail(parts))

\* variant: the window is joined newest first
reflection_text_newest_first(recent) ==
    Join(<< "\n---\n" >>,
         [i \in 1..Len(recent) |-> << recent[Len(recent) + 1 - i] >>])

\* line 139: "\n---\n".join(recent_reflections); a serialized reflection is one piece
reflection_text(recent) ==
    Join(<< "\n---\n" >>, [i \in 1..Len(recent) |-> << recent[i] >>])

\* an Optional[str] value: None, or a text
NoneValue == [is_none |-> TRUE, text |-> << >>]

Text(t) == [is_none |-> FALSE, text |-> t]

\* what an f-string puts for {value}: str(None) is "None", a text stands as it is
str(v) == IF v.is_none THEN << "N", "o", "n", "e" >> ELSE v.text

\* json.dumps writes a line break inside a string as the two characters \n
json_escape(t) == [i \in 1..Len(t) |-> IF t[i] = "\n" THEN "\\n" ELSE t[i]]

\* json.dumps of a dict of texts, given as the sequence of its items
RECURSIVE json_dumps_dict_items(_)
json_dumps_dict_items(items) ==
    IF items = << >> THEN << >>
    ELSE << "\"", items[1].key, "\"", ":", " ", "\"" >>
            \o json_escape(items[1].value) \o << "\"" >>
            \o (IF Len(items) > 1 THEN << ",", " " >> ELSE << >>)
            \o json_dumps_dict_items(Tail(items))

json_dumps_dict(items) == << "{" >> \o json_dumps_dict_items(items) \o << "}" >>

\* lines 72-78
QuestionContextParts(sample, env) ==
    << << "question: " >> \o sample.question,
       << "context: " >> \o sample.context,
       << "metadata: " >> \o json_dumps_dict(sample.metadata),
       << "feedback: " >> \o env.feedback,
       << "ground_truth: " >> \o str(env.ground_truth) >>

\* variant: a field that is empty or None gets no line
build_question_context_skip_empty(sample, env) ==
    Join(<< "\n" >>,
         SelectSeq(QuestionContextParts(sample, env),
                   LAMBDA part : Len(part) > 1 /\ Tail(part) # str(NoneValue)
                                 /\ Tail(part) # << "{", "}" >>))

\* lines 71-80
build_question_context(sample, env) ==
    Join(<< "\n" >>, QuestionContextParts(sample, env))

progress_string(e, te, s, ts) == << "epoch", e, te, "sample", s, ts >>


(***************************************************************************)
(* Values the external collaborators may return                            *)
(***************************************************************************)
NoOutput == [question |-> None]

NoEval == [feedback |-> None, ground_truth |-> None]

NoUpdate == [update |-> << >>, progress |-> << >>]

TagPairs == [id : TagIds, tag : Tags]

\* The loop never looks into reflection.raw (it only serializes it), so the payload
\* of each step is represented by a value that names the step that produced it.
RawOf(e, s) == [epoch |-> e, sample |-> s]

\* `reflection` before the Reflector has answered
NoReflection == [raw |-> RawOf(0, 0), skill_tags |-> << >>]

Reflections(e, s) ==
    { [raw |-> RawOf(e, s), skill_tags |-> t] : t \in SeqsUpTo(TagPairs, MaxTags) }

\* the operations a SkillManager may return; the skills they describe carry no tags
Operations ==
    [type : {"add", "edit", "merge"}, id : SkillIds, content : Contents, tags : { {} }]
        \cup [type : {"prune"}, id : SkillIds, content : {None}, tags : { {} }]

SkillUpdates == SeqsUpTo(Operations, MaxOps)

\* what SKILLBOOK_PATH may hold when main() starts: nothing, or an earlier save
InitialFiles ==
    { NoFile,
      save(<< Skill("s1", "c1", {"helpful"}) >>) }

(***************************************************************************)
(* main()                                                                  *)
(***************************************************************************)
\* the helper functions are not being looked at on their own
FnIdle ==
    /\ win_cap = 0
    /\ win = << >>
    /\ win_hist = << >>
    /\ qc_sample = [question |-> << >>, context |-> << >>,
                    ground_truth |-> NoneValue, metadata |-> << >>]
    /\ qc_env = [feedback |-> << >>, ground_truth |-> NoneValue]
    /\ qc_out = << >>

Init ==
    /\ pc = "start"
    /\ has_api_key \in BOOLEAN
    /\ file \in InitialFiles
    /\ skillbook = << >>
    /\ recent_reflections = << >>
    /\ results = << >>
    /\ step_index = 0
    /\ agent_output = NoOutput
    /\ env_result = NoEval
    /\ reflection = NoReflection
    /\ tag_pos = 0
    /\ skill_manager_output = NoUpdate
    /\ error = "none"
    /\ appended = << >>
    /\ saves = 0
    /\ given_reflection = << >>
    /\ applies = 0
    /\ FnIdle

Raise(stage) ==
    /\ pc' = "failed"
    /\ error' = stage

\* lines 96-98: without an API key main() returns at once
CheckApiKey ==
    /\ pc = "start"
    /\ pc' = IF has_api_key THEN "create" ELSE "returned"
    /\ UNCHANGED << has_api_key, file, skillbook, recent_reflections, results,
                    step_index, agent_output, env_result, reflection, tag_pos,
                    skill_manager_output, error, appended, saves >>
    /\ UNCHANGED << given_reflection, applies, fnvars >>

\* lines 102-131: the agent with the loaded (or an empty) skillbook, the loop's locals
CreateAgent ==
    /\ pc = "create"
    /\ skillbook' = IF file.exists THEN load(file) ELSE << >>
    /\ results' = << >>
    /\ recent_reflections' = << >>
    /\ pc' = "for"
    /\ UNCHANGED << has_api_key, file, step_index, agent_output, env_result,
                    reflection, tag_pos, skill_manager_output, error, appended, saves >>
    /\ UNCHANGED << given_reflection, applies, fnvars >>

\* line 105: the file exists and cannot be loaded
CreateAgentFails ==
    /\ pc = "create"
    /\ file.exists
    /\ Raise("load")
    /\ UNCHANGED << has_api_key, file, skillbook, recent_reflections, results,
                    step_index, agent_output, env_result, reflection, tag_pos,
                    skill_manager_output, appended, saves >>
    /\ UNCHANGED << given_reflection, applies, fnvars >>

\* variant: the loop ends one sample early
ForSamples_one_short ==
    /\ pc = "for"
    /\ IF step_index < total_steps - 1
       THEN /\ step_index' = step_index + 1
            /\ pc' = "generate"
       ELSE /\ step_index' = step_index
            /\ pc' = "save"
    /\ UNCHANGED << has_api_key, file, skillbook, recent_reflections, results,
                    agent_output, env_result, reflection, tag_pos,
                    skill_manager_output, error, appended, saves >>
    /\ UNCHANGED << given_reflection, applies, fnvars >>

\* variant: the window is created inside the loop body
ForSamples_fresh_window ==
    /\ pc = "for"
    /\ IF step_index < total_steps
       THEN /\ step_index' = step_index + 1
            /\ recent_reflections' = << >>
            /\ pc' = "generate"
       ELSE /\ step_index' = step_index
            /\ recent_reflections' = recent_reflections
            /\ pc' = "save"
    /\ UNCHANGED << has_api_key, file, skillbook, results,
                    agent_output, env_result, reflection, tag_pos,
                    skill_manager_output, error, appended, saves >>
    /\ UNCHANGED << given_reflection, applies, fnvars >>

\* line 132: the next sample, or the end of the loop
ForSamples ==
    /\ pc = "for"
    /\ IF step_index < total_steps
       THEN /\ step_index' = step_index + 1
            /\ pc' = "generate"
       ELSE /\ step_index' = step_index
            /\ pc' = "save"
    /\ UNCHANGED << has_api_key, file, skillbook, recent_reflections, results,
                    agent_output, env_result, reflection, tag_pos,
                    skill_manager_output, error, appended, saves >>
    /\ UNCHANGED << given_reflection, applies, fnvars >>

\* lines 135-141
Generate ==
    /\ pc = "generate"
    /\ agent_output' = [question |-> samples[step_index].question]
    /\ given_reflection' = reflection_text(recent_reflections)
    /\ pc' = "evaluate"
    /\ UNCHANGED << has_api_key, file, skillbook, recent_reflections, results,
                    step_index, env_result, reflection, tag_pos,
                    skill_manager_output, error, appended, saves >>
    /\ UNCHANGED << applies, fnvars >>

\* variant: the failure of generate is caught and the loop goes on to the next sample
GenerateFails_continue ==
    /\ pc = "generate"
    /\ error' = "generate"
    /\ pc' = "for"
    /\ UNCHANGED << has_api_key, file, skillbook, recent_reflections, results,
                    step_index, agent_output, env_result, reflection, tag_pos,
                    skill_manager_output, appended, saves >>
    /\ UNCHANGED << given_reflection, applies, fnvars >>

GenerateFails ==
    /\ pc = "generate"
    /\ Raise("generate")
    /\ UNCHANGED << has_api_key, file, skillbook, recent_reflections, results,
                    step_index, agent_output, env_result, reflection, tag_pos,
                    skill_manager_output, appended, saves >>
    /\ UNCHANGED << given_reflection, applies, fnvars >>

\* line 142
Evaluate ==
    /\ pc = "evaluate"
    /\ env_result' = [feedback |-> "feedback",
                      ground_truth |-> samples[step_index].ground_truth]
    /\ pc' = "reflect"
    /\ UNCHANGED << has_api_key, file, skillbook, recent_reflections, results,
                    step_index, agent_output, reflection, tag_pos,
                    skill_manager_output, error, appended, saves >>
    /\ UNCHANGED << given_reflection, applies, fnvars >>

EvaluateFails ==
    /\ pc = "evaluate"
    /\ Raise("evaluate")
    /\ UNCHANGED << has_api_key, file, skillbook, recent_reflections, results,
                    step_index, agent_output, env_result, reflection, tag_pos,
                    skill_manager_output, appended, saves >>
    /\ UNCHANGED << given_reflection, applies, fnvars >>

\* lines 143-149
Reflect ==
    /\ pc = "reflect"
    /\ reflection' \in Reflections(epoch, step_index)
    /\ tag_pos' = 1
    /\ pc' = "tag"
    /\ UNCHANGED << has_api_key, file, skillbook, recent_reflections, results,
                    step_index, agent_output, env_result,
                    skill_manager_output, error, appended, saves >>
    /\ UNCHANGED << given_reflection, applies, fnvars >>

ReflectFails ==
    /\ pc = "reflect"
    /\ Raise("reflect")
    /\ UNCHANGED << has_api_key, file, skillbook, recent_reflections, results,
                    step_index, agent_output, env_result, reflection, tag_pos,
                    skill_manager_output, appended, saves >>
    /\ UNCHANGED << given_reflection, applies, fnvars >>

\* lines 151-153: tag_skill on an id the skillbook has
TagSkill ==
    /\ pc = "tag"
    /\ tag_pos <= Len(reflection.skill_tags)
    /\ LET tag == reflection.skill_tags[tag_pos]
       IN  /\ HasSkill(skillbook, tag.id)
           /\ skillbook' = tag_skill(skillbook, tag.id, tag.tag)
    /\ tag_pos' = tag_pos + 1
    /\ UNCHANGED << pc, has_api_key, file, recent_reflections, results,
                    step_index, agent_output, env_result, reflection,
                    skill_manager_output, error, appended, saves >>
    /\ UNCHANGED << given_reflection, applies, fnvars >>

\* variant: the ValueError of tag_skill is not caught
TagSkillNotFound_raises ==
    /\ pc = "tag"
    /\ tag_pos <= Len(reflection.skill_tags)
    /\ ~HasSkill(skillbook, reflection.skill_tags[tag_pos].id)
    /\ Raise("tag_skill")
    /\ UNCHANGED << has_api_key, file, skillbook, recent_reflections, results,
                    step_index, agent_output, env_result, reflection, tag_pos,
                    skill_manager_output, appended, saves >>
    /\ UNCHANGED << given_reflection, applies, fnvars >>

\* variant: the try encloses the whole tag loop, so the first ValueError ends it
TagSkillNotFound_ends_loop ==
    /\ pc = "tag"
    /\ tag_pos <= Len(reflection.skill_tags)
    /\ ~HasSkill(skillbook, reflection.skill_tags[tag_pos].id)
    /\ tag_pos' = Len(reflection.skill_tags) + 1
    /\ UNCHANGED << pc, has_api_key, file, skillbook, recent_reflections, results,
                    step_index, agent_output, env_result, reflection,
                    skill_manager_output, error, appended, saves >>
    /\ UNCHANGED << given_reflection, applies, fnvars >>

\* lines 151-155: tag_skill raises ValueError for an unknown id; the loop passes
TagSkillNotFound ==
    /\ pc = "tag"
    /\ tag_pos <= Len(reflection.skill_tags)
    /\ ~HasSkill(skillbook, reflection.skill_tags[tag_pos].id)
    /\ tag_pos' = tag_pos + 1
    /\ UNCHANGED << pc, has_api_key, file, skillbook, recent_reflections, results,
                    step_index, agent_output, env_result, reflection,
                    skill_manager_output, error, appended, saves >>
    /\ UNCHANGED << given_reflection, applies, fnvars >>

\* variant: the window append does not wait for the tag loop
UpdateRecentReflections_early ==
    /\ pc = "tag"
    /\ recent_reflections' = update_recent_reflections(recent_reflections, reflection)
    /\ appended' = Append(appended, json_dumps(reflection.raw))
    /\ reflection' = [reflection EXCEPT !.skill_tags = << >>]
    /\ tag_pos' = 0
    /\ pc' = "update_skills"
    /\ UNCHANGED << has_api_key, file, skillbook, results,
                    step_index, agent_output, env_result,
                    skill_manager_output, error, saves >>
    /\ UNCHANGED << given_reflection, applies, fnvars >>

\* line 157, once the tag loop is exhausted.  main() does not read skill_tags after
\* its tag loop (the SkillManager's answer is any update, whatever they are), so the
\* model forgets them here.
UpdateRecentReflections ==
    /\ pc = "tag"
    /\ tag_pos > Len(reflection.skill_tags)
    /\ recent_reflections' = update_recent_reflections(recent_reflections, reflection)
    /\ appended' = Append(appended, json_dumps(reflection.raw))
    /\ reflection' = [reflection EXCEPT !.skill_tags = << >>]
    /\ tag_pos' = 0
    /\ pc' = "update_skills"
    /\ UNCHANGED << has_api_key, file, skillbook, results,
                    step_index, agent_output, env_result,
                    skill_manager_output, error, saves >>
    /\ UNCHANGED << given_reflection, applies, fnvars >>

\* variant: update_skills applies its update to the skillbook it was handed
UpdateSkills_applies ==
    /\ pc = "update_skills"
    /\ \E u \in SkillUpdates :
          /\ skill_manager_output' =
                [update |-> u,
                 progress |-> progress_string(epoch, total_epochs, step_index, total_steps)]
          /\ skillbook' = apply_update(skillbook, u).book
    /\ pc' = "apply_update"
    /\ UNCHANGED << has_api_key, file, recent_reflections, results,
                    step_index, agent_output, env_result, reflection, tag_pos,
                    error, appended, saves >>
    /\ UNCHANGED << given_reflection, applies, fnvars >>

\* lines 159-164
UpdateSkills ==
    /\ pc = "update_skills"
    /\ \E u \in SkillUpdates :
          skill_manager_output' =
              [update |-> u,
               progress |-> progress_string(epoch, total_epochs, step_index, total_steps)]
    /\ pc' = "apply_update"
    /\ UNCHANGED << has_api_key, file, skillbook, recent_reflections, results,
                    step_index, agent_output, env_result, reflection, tag_pos,
                    error, appended, saves >>
    /\ UNCHANGED << given_reflection, applies, fnvars >>

\* variant: a failing update_skills takes the step's reflection out of the window again
UpdateSkillsFails_rolls_back ==
    /\ pc = "update_skills"
    /\ Raise("update_skills")
    /\ recent_reflections' = SubSeq(recent_reflections, 1, Len(recent_reflections) - 1)
    /\ UNCHANGED << has_api_key, file, skillbook, results,
                    step_index, agent_output, env_result, reflection, tag_pos,
                    skill_manager_output, appended, saves >>
    /\ UNCHANGED << given_reflection, applies, fnvars >>

UpdateSkillsFails ==
    /\ pc = "update_skills"
    /\ Raise("update_skills")
    /\ UNCHANGED << has_api_key, file, skillbook, recent_reflections, results,
                    step_index, agent_output, env_result, reflection, tag_pos,
                    skill_manager_output, appended, saves >>
    /\ UNCHANGED << given_reflection, applies, fnvars >>

\* variant: the update is applied a second time right after the first
ApplyUpdate_twice ==
    /\ pc = "apply_update"
    /\ LET r == apply_update(skillbook, skill_manager_output.update)
       IN  r.ok /\ skillbook' = apply_update(r.book, skill_manager_output.update).book
    /\ applies' = applies + 2
    /\ pc' = "record"
    /\ UNCHANGED << has_api_key, file, recent_reflections, results,
                    step_index, agent_output, env_result, reflection, tag_pos,
                    skill_manager_output, error, appended, saves >>
    /\ UNCHANGED << given_reflection, fnvars >>

\* line 166
ApplyUpdate ==
    /\ pc = "apply_update"
    /\ LET r == apply_update(skillbook, skill_manager_output.update)
       IN  r.ok /\ skillbook' = r.book
    /\ applies' = applies + 1
    /\ pc' = "record"
    /\ UNCHANGED << has_api_key, file, recent_reflections, results,
                    step_index, agent_output, env_result, reflection, tag_pos,
                    skill_manager_output, error, appended, saves >>
    /\ UNCHANGED << given_reflection, fnvars >>

ApplyUpdateFails ==
    /\ pc = "apply_update"
    /\ LET r == apply_update(skillbook, skill_manager_output.update)
       IN  ~r.ok /\ skillbook' = r.book
    /\ Raise("apply_update")
    /\ UNCHANGED << has_api_key, file, recent_reflections, results,
                    step_index, agent_output, env_result, reflection, tag_pos,
                    skill_manager_output, appended, saves >>
    /\ UNCHANGED << given_reflection, applies, fnvars >>

\* variant: the StepResult is put in front of the earlier ones
Record_in_front ==
    /\ pc = "record"
    /\ results' = << [agent_output |-> agent_output,
                      reflection |-> reflection.raw,
                      progress |-> skill_manager_output.progress] >> \o results
    /\ agent_output' = NoOutput
    /\ env_result' = NoEval
    /\ reflection' = NoReflection
    /\ tag_pos' = 0
    /\ skill_manager_output' = NoUpdate
    /\ pc' = "for"
    /\ UNCHANGED << has_api_key, file, skillbook, recent_reflections,
                    step_index, error, appended, saves >>
    /\ UNCHANGED << given_reflection, applies, fnvars >>

\* variant: the skillbook is saved at the end of every step
Record_saves ==
    /\ pc = "record"
    /\ results' = Append(results, [agent_output |-> agent_output,
                                   reflection |-> reflection.raw,
                                   progress |-> skill_manager_output.progress])
    /\ agent_output' = NoOutput
    /\ env_result' = NoEval
    /\ reflection' = NoReflection
    /\ tag_pos' = 0
    /\ skill_manager_output' = NoUpdate
    /\ file' = save(skillbook)
    /\ saves' = saves + 1
    /\ pc' = "for"
    /\ UNCHANGED << has_api_key, skillbook, recent_reflections,
                    step_index, error, appended >>
    /\ UNCHANGED << given_reflection, applies, fnvars >>

\* lines 167-172: the StepResult (the sample's output, the reflection, the progress
\* the SkillManager was given); the body's locals are rebound before their next read
Record ==
    /\ pc = "record"
    /\ results' = Append(results, [agent_output |-> agent_output,
                                   reflection |-> reflection.raw,
                                   progress |-> skill_manager_output.progress])
    /\ agent_output' = NoOutput
    /\ env_result' = NoEval
    /\ reflection' = NoReflection
    /\ tag_pos' = 0
    /\ skill_manager_output' = NoUpdate
    /\ pc' = "for"
    /\ UNCHANGED << has_api_key, file, skillbook, recent_reflections,
                    step_index, error, appended, saves >>
    /\ UNCHANGED << given_reflection, applies, fnvars >>

\* lines 175-187
SaveSkillbook ==
    /\ pc = "save"
    /\ file' = save(skillbook)
    /\ saves' = saves + 1
    /\ pc' = "test"
    /\ UNCHANGED << has_api_key, skillbook, recent_reflections, results,
                    step_index, agent_output, env_result, reflection, tag_pos,
                    skill_manager_output, error, appended >>
    /\ UNCHANGED << given_reflection, applies, fnvars >>

SaveSkillbookFails ==
    /\ pc = "save"
    /\ Raise("save")
    /\ UNCHANGED << has_api_key, file, skillbook, recent_reflections, results,
                    step_index, agent_output, env_result, reflection, tag_pos,
                    skill_manager_output, appended, saves >>
    /\ UNCHANGED << given_reflection, applies, fnvars >>

\* lines 190-200
TestGenerate ==
    /\ pc = "test"
    /\ pc' = "done"
    /\ UNCHANGED << has_api_key, file, skillbook, recent_reflections, results,
                    step_index, agent_output, env_result, reflection, tag_pos,
                    skill_manager_output, error, appended, saves >>
    /\ UNCHANGED << given_reflection, applies, fnvars >>

TestGenerateFails ==
    /\ pc = "test"
    /\ Raise("test_generate")
    /\ UNCHANGED << has_api_key, file, skillbook, recent_reflections, results,
                    step_index, agent_output, env_result, reflection, tag_pos,
                    skill_manager_output, appended, saves >>
    /\ UNCHANGED << given_reflection, applies, fnvars >>

Next ==
    \/ CheckApiKey
    \/ CreateAgent
    \/ CreateAgentFails
    \/ ForSamples
    \/ Generate
    \/ GenerateFails
    \/ Evaluate
    \/ EvaluateFails
    \/ Reflect
    \/ ReflectFails
    \/ TagSkill
    \/ TagSkillNotFound
    \/ UpdateRecentReflections
    \/ UpdateSkills
    \/ UpdateSkillsFails
    \/ ApplyUpdate
    \/ ApplyUpdateFails
    \/ Record
    \/ SaveSkillbook
    \/ SaveSkillbookFails
    \/ TestGenerate
    \/ TestGenerateFails

Spec == Init /\ [][Next]_vars

\* main() is one sequential thread: a statement that can run does run
FairSpec == Spec /\ WF_vars(Next)

(***************************************************************************)
(* The helper functions on their own                                       *)
(***************************************************************************)
\* main() is not running
MainIdle ==
    /\ has_api_key = TRUE
    /\ file = NoFile
    /\ skillbook = << >>
    /\ recent_reflections = << >>
    /\ results = << >>
    /\ step_index = 0
    /\ agent_output = NoOutput
    /\ env_result = NoEval
    /\ reflection = NoReflection
    /\ tag_pos = 0
    /\ skill_manager_output = NoUpdate
    /\ error = "none"
    /\ appended = << >>
    /\ saves = 0
    /\ given_reflection = << >>
    /\ applies = 0

\* field values build_question_context is called with: empty, one line, two lines
Questions == { << "q" >>, << "q", "\n", "r" >> }

Contexts == { << >>, << "c" >> }

Metadatas == { << >>, << [key |-> "k", value |-> << "v" >>] >>,
               << [key |-> "k", value |-> << "v", "\n", "w" >>] >> }

Feedbacks == { << >>, << "f" >>, << "f", "\n", "g" >> }

GroundTruths == { NoneValue, Text(<< "4" >>) }

ContextInit ==
    /\ pc = "context"
    /\ MainIdle
    /\ win_cap = 0
    /\ win = << >>
    /\ win_hist = << >>
    /\ qc_sample \in [question : Questions, context : Contexts,
                      ground_truth : GroundTruths, metadata : Metadatas]
    /\ qc_env \in [feedback : Feedbacks, ground_truth : GroundTruths]
    /\ qc_out = << >>

\* one call build_question_context(sample, env_result)
BuildQuestionContext ==
    /\ pc = "context"
    /\ qc_out' = build_question_context(qc_sample, qc_env)
    /\ pc' = "context_done"
    /\ UNCHANGED << mainvars_but_pc, win_cap, win, win_hist, qc_sample, qc_env >>

ContextNext == BuildQuestionContext

ContextSpec == ContextInit /\ [][ContextNext]_vars

\* the largest value of REFLECTION_WINDOW looked at
MaxCap == 3

\* the largest number of calls of update_recent_reflections looked at
MaxCalls == 5

WindowInit ==
    /\ pc = "window"
    /\ MainIdle
    /\ win_cap \in 0..MaxCap
    /\ win = << >>
    /\ win_hist = << >>
    /\ qc_sample = [question |-> << >>, context |-> << >>,
                    ground_truth |-> NoneValue, metadata |-> << >>]
    /\ qc_env = [feedback |-> << >>, ground_truth |-> NoneValue]
    /\ qc_out = << >>

\* one call update_recent_reflections(win, reflection) with REFLECTION_WINDOW = win_cap
UpdateWindow ==
    /\ pc = "window"
    /\ Len(win_hist) < MaxCalls
    /\ \E s \in 1..2 :
          LET refl == [raw |-> RawOf(epoch, s), skill_tags |-> << >>]
          IN  /\ win' = update_recent_reflections_N(win, refl, win_cap)
              /\ win_hist' = Append(win_hist, json_dumps(refl.raw))
    /\ UNCHANGED << mainvars, win_cap, qc_sample, qc_env, qc_out >>

WindowNext == UpdateWindow

WindowSpec == WindowInit /\ [][WindowNext]_vars


(***************************************************************************)
(* Properties                                                              *)
(***************************************************************************)
LastN(s, n) == SubSeq(s, Len(s) - n + 1, Len(s))

\* the loop over the samples has run to its end
LoopCompleted ==
    \/ pc \in {"save", "test", "done"}
    \/ pc = "failed" /\ error \in {"save", "test_generate"}

\* main() is inside the body of the loop
InBody == pc \in {"generate", "evaluate", "reflect", "tag", "update_skills",
                  "apply_update", "record"}

SampleOf(i) == ((i - 1) % total_steps) + 1

EpochOf(i) == ((i - 1) \div total_steps) + 1

\* C1: the reflection window never holds more than REFLECTION_WINDOW entries, and
\* once more than REFLECTION_WINDOW reflections have been appended it holds exactly
\* the REFLECTION_WINDOW most recently appended serialized reflections, oldest first.
C1_WindowKeepsMostRecent ==
    /\ Len(recent_reflections) <= REFLECTION_WINDOW
    /\ Len(appended) > REFLECTION_WINDOW
          => recent_reflections = LastN(appended, REFLECTION_WINDOW)

C1_Witness ==
    /\ Len(appended) > REFLECTION_WINDOW
    /\ Len(recent_reflections) = REFLECTION_WINDOW
    /\ recent_reflections[1] = json_dumps(RawOf(epoch, 2))

\* C2: the loop run to its end has recorded exactly total_epochs * len(samples)
\* StepResults, and the i-th recorded result is the one of sample ((i-1) mod S)+1 of
\* epoch ((i-1) div S)+1.
C2_ResultsCountAndOrder ==
    /\ LoopCompleted => Len(results) = total_epochs * total_steps
    /\ \A i \in 1..Len(results) :
          /\ results[i].agent_output.question = samples[SampleOf(i)].question
          /\ results[i].reflection = RawOf(EpochOf(i), SampleOf(i))
          /\ results[i].progress =
                progress_string(EpochOf(i), total_epochs, SampleOf(i), total_steps)

C2_Witness ==
    /\ pc = "done"
    /\ Len(results) = total_steps
    /\ results[total_steps].agent_output.question = samples[total_steps].question

\* what one step of main() may do at each position, and what holds at each position
StageOrderStep ==
    /\ pc = "generate" => pc' \in {"evaluate", "failed"}
    /\ pc = "evaluate" => pc' \in {"reflect", "failed"}
    /\ pc = "reflect" => pc' \in {"tag", "failed"}
    /\ pc = "tag" /\ tag_pos <= Len(reflection.skill_tags)
          => pc' = "tag" /\ tag_pos' = tag_pos + 1 /\ appended' = appended
    /\ pc = "tag" /\ tag_pos > Len(reflection.skill_tags)
          => pc' = "update_skills" /\ Len(appended') = Len(appended) + 1
    /\ pc = "update_skills" => pc' \in {"apply_update", "failed"}
    /\ pc = "apply_update" => pc' \in {"record", "failed"}
    /\ pc = "record" => pc' = "for" /\ Len(results') = Len(results) + 1
    /\ step_index' # step_index => pc = "for" /\ Len(results) = step_index
    /\ Len(results') # Len(results) => pc = "record"

StageOrderState ==
    /\ InBody => Len(results) = step_index - 1
    /\ pc \in {"evaluate", "reflect", "tag", "update_skills", "apply_update", "record"}
          => agent_output = [question |-> samples[step_index].question]
    /\ pc \in {"reflect", "tag", "update_skills", "apply_update", "record"}
          => env_result.ground_truth = samples[step_index].ground_truth
    /\ pc \in {"tag", "update_skills", "apply_update", "record"}
          => reflection.raw = RawOf(epoch, step_index)
    /\ pc \in {"generate", "evaluate", "reflect", "tag"}
          => Len(appended) = step_index - 1 /\ skill_manager_output = NoUpdate
    /\ pc \in {"update_skills", "apply_update", "record"}
          => Len(appended) = step_index
    /\ pc = "update_skills" => skill_manager_output = NoUpdate
    /\ pc \in {"apply_update", "record"}
          => skill_manager_output.progress =
                progress_string(epoch, total_epochs, step_index, total_steps)

\* C3: within a sample the stages follow one another in the order generate,
\* evaluate, reflect, tag_skill for every pair, window append, update_skills,
\* apply_update, record, each on the outcome of the one before; and the next sample
\* is not started before the StepResult of the current one is recorded.
C3_StagesInOrder == [][StageOrderStep]_vars /\ []StageOrderState

C3_Witness ==
    /\ pc = "record"
    /\ step_index = 2
    /\ Len(results) = 1
    /\ skillbook # << >>


SkillOf(book, id) == book[IndexOf(book, id)]

\* C4: the skillbook never holds two skills with the same id, whatever updates
\* (adds of existing ids included) apply_update has been given.
C4_UniqueIds == Cardinality(Ids(skillbook)) = Len(skillbook)

C4_Witness ==
    /\ pc = "failed"
    /\ error = "apply_update"
    /\ Len(skillbook) = 2
    /\ \E i \in 1..Len(skill_manager_output.update) :
          /\ skill_manager_output.update[i].type = "add"
          /\ HasSkill(skillbook, skill_manager_output.update[i].id)

\* the step of the tag loop on a pair whose id the skillbook does not have
TagUnknownStep ==
    (/\ pc = "tag"
     /\ tag_pos <= Len(reflection.skill_tags)
     /\ ~HasSkill(skillbook, reflection.skill_tags[tag_pos].id))
        => /\ skillbook' = skillbook
           /\ pc' = "tag"
           /\ error' = "none"
           /\ tag_pos' = tag_pos + 1
           /\ reflection' = reflection

\* C5: a tag_skill call of the tag loop on an id the skillbook does not have leaves
\* the skillbook (skills, order, content, tags) as it was and raises nothing out of
\* the loop: main() goes on with the next pair, and so to the window append.
C5_UnknownTagHarmless == [][TagUnknownStep]_vars

C5_Witness ==
    /\ pc = "tag"
    /\ tag_pos > 1
    /\ ~HasSkill(skillbook, reflection.skill_tags[tag_pos - 1].id)
    /\ \E i \in 1..Len(skillbook) : skillbook[i].tags # {}

\* C6: when the tag loop has gone over the pairs of reflection.skill_tags, every
\* pair whose id is in the skillbook has its tag on that skill, whatever unknown ids
\* stand before or after it.
C6_TagsBestEffort ==
    pc = "tag" =>
        \A i \in 1..Len(reflection.skill_tags) :
            (i < tag_pos /\ HasSkill(skillbook, reflection.skill_tags[i].id))
                => reflection.skill_tags[i].tag
                       \in SkillOf(skillbook, reflection.skill_tags[i].id).tags

C6_Witness ==
    /\ pc = "tag"
    /\ Len(reflection.skill_tags) = 2
    /\ tag_pos = 3
    /\ ~HasSkill(skillbook, reflection.skill_tags[1].id)
    /\ HasSkill(skillbook, reflection.skill_tags[2].id)
    /\ reflection.skill_tags[2].tag
           \in SkillOf(skillbook, reflection.skill_tags[2].id).tags

\* the calls of the loop body that may fail, and the state a failure leaves
LoopStages == {"generate", "evaluate", "reflect", "update_skills", "apply_update"}

FailureState ==
    /\ error # "none" => pc = "failed"
    /\ pc = "failed" => error \in LoopStages \cup {"load", "save", "test_generate"}
    /\ (pc = "failed" /\ error \in LoopStages) =>
          /\ Len(results) = step_index - 1
          /\ saves = 0
          /\ error = "generate" => agent_output = NoOutput
          /\ error \in {"generate", "evaluate"} => env_result = NoEval
          /\ error \in {"generate", "evaluate", "reflect"}
                => reflection = NoReflection /\ Len(appended) = step_index - 1
          /\ error \in {"generate", "evaluate", "reflect", "update_skills"}
                => skill_manager_output = NoUpdate
          /\ error \in {"update_skills", "apply_update"}
                => Len(appended) = step_index

\* C7: a failure of generate, evaluate, reflect, update_skills or apply_update
\* leaves main(): no later stage of the sample has run, no StepResult is recorded
\* for it, and nothing runs afterwards.  No other failure is swallowed either: the
\* only error the loop passes over is the unknown id of tag_skill.
C7_FailuresPropagate == []FailureState /\ [][pc # "failed"]_vars

C7_Witness ==
    /\ pc = "failed"
    /\ error = "update_skills"
    /\ step_index = 3
    /\ Len(results) = 2


\* a bound on the steps main() has left
PerSample == MaxTags + 9

Terminated == pc \in {"done", "failed", "returned"}

Rank ==
    LET left == (total_epochs * total_steps - step_index) * PerSample + 3
    IN  CASE pc = "start" -> left + 2
          [] pc = "create" -> left + 1
          [] pc = "for" -> left
          [] pc = "generate" -> left + MaxTags + 8
          [] pc = "evaluate" -> left + MaxTags + 7
          [] pc = "reflect" -> left + MaxTags + 6
          [] pc = "tag" -> left + 4 + (Len(reflection.skill_tags) + 1 - tag_pos)
          [] pc = "update_skills" -> left + 3
          [] pc = "apply_update" -> left + 2
          [] pc = "record" -> left + 1
          [] pc = "save" -> 2
          [] pc = "test" -> 1
          [] OTHER -> 0

\* main() is not stuck: some step is possible.  At the apply_update call the two
\* steps are guarded by the outcome of the call and its negation.
CanStep ==
    IF pc = "apply_update"
    THEN apply_update(skillbook, skill_manager_output.update).ok \in BOOLEAN
    ELSE ENABLED Next

LoopEndsAfterAllSteps ==
    /\ step_index <= total_epochs * total_steps
    /\ LoopCompleted =>
          /\ step_index = total_epochs * total_steps
          /\ Len(appended) = total_epochs * total_steps

\* C8: main() always comes to the end of its loop unless a call fails (or it
\* returns for want of an API key), and the loop ends after exactly
\* total_epochs * len(samples) steps: never after fewer, never after more.
\* Termination is stated by a rank: every step of main() lowers a natural number,
\* and main() can always take a step until it has ended; with the sequential
\* thread's fairness (FairSpec) it therefore ends.
C8_LoopTerminates ==
    /\ []LoopEndsAfterAllSteps
    /\ [](Rank >= 0 /\ (Terminated \/ CanStep))
    /\ [][Rank' < Rank]_vars

C8_Witness ==
    /\ pc = "save"
    /\ step_index = total_epochs * total_steps
    /\ Len(appended) = total_steps

\* the steps that end one loop iteration and begin the next
CarriedOverStep ==
    pc \in {"record", "for"} =>
        /\ skillbook' = skillbook
        /\ recent_reflections' = recent_reflections

\* C9: the skillbook and the reflection window are carried from one step to the
\* next: recording a step's result and moving on to the next sample change neither.
C9_NoResetBetweenSteps == [][CarriedOverStep]_vars

C9_Witness ==
    /\ pc = "generate"
    /\ step_index = 3
    /\ Len(recent_reflections) = 2
    /\ Len(skillbook) = 2

\* C10: the skillbook loaded back from the file that save_skillbook wrote has the
\* same skills in the same order, each with the same id, content and tags.
C10_SaveLoadRoundTrip ==
    saves > 0 => file.exists /\ load(file) = skillbook

C10_Witness ==
    /\ saves > 0
    /\ Len(skillbook) = 2
    /\ skillbook[1].id = "s2"
    /\ skillbook[1].tags = Tags
    /\ skillbook[2].content # skillbook[1].content


\* the update at hand is a single "add" of an id the skillbook does not have
SingleFreshAdd ==
    /\ Len(skill_manager_output.update) = 1
    /\ skill_manager_output.update[1].type = "add"
    /\ ~HasSkill(skillbook, skill_manager_output.update[1].id)

\* the steps of the loop body before apply_update keep the number of skills;
\* apply_update of a single fresh "add" puts the new skill behind the others
SingleAddStep ==
    /\ (InBody /\ pc # "apply_update") => Len(skillbook') = Len(skillbook)
    /\ (pc = "apply_update" /\ SingleFreshAdd) =>
          /\ pc' = "record"
          /\ Len(skillbook') = Len(skillbook) + 1
          /\ \A i \in 1..Len(skillbook) : skillbook'[i] = skillbook[i]
          /\ skillbook'[Len(skillbook')].id = skill_manager_output.update[1].id
          /\ skillbook'[Len(skillbook')].content = skill_manager_output.update[1].content

TagIdempotent ==
    \A i \in 1..Len(skillbook) : \A t \in Tags :
        LET once == tag_skill(skillbook, skillbook[i].id, t)
        IN  /\ tag_skill(once, skillbook[i].id, t) = once
            /\ t \in skillbook[i].tags => once = skillbook

\* the step of the tag loop on a pair that the skill already carries
TagRepeatStep ==
    (/\ pc = "tag"
     /\ tag_pos <= Len(reflection.skill_tags)
     /\ HasSkill(skillbook, reflection.skill_tags[tag_pos].id)
     /\ reflection.skill_tags[tag_pos].tag
            \in SkillOf(skillbook, reflection.skill_tags[tag_pos].id).tags)
        => /\ skillbook' = skillbook
           /\ pc' = "tag"
           /\ error' = "none"
           /\ tag_pos' = tag_pos + 1

\* C12: tag_skill is idempotent: for every skill of the book and every tag, a second
\* tag_skill(id, tag) leaves the skillbook as the first one left it, and a pair that
\* a reflection repeats is passed over without error.
C12_TagSkillIdempotent == []TagIdempotent /\ [][TagRepeatStep]_vars

C12_Witness ==
    /\ pc = "tag"
    /\ step_index = 2
    /\ Len(reflection.skill_tags) = 2
    /\ tag_pos = 3
    /\ reflection.skill_tags[1] = reflection.skill_tags[2]
    /\ HasSkill(skillbook, reflection.skill_tags[1].id)


\* the number of line breaks in a text
NumBreaks(t) == Cardinality({ i \in 1..Len(t) : t[i] = "\n" })

\* the position of the first line break of a text, 0 if it has none
FirstBreak(t) ==
    IF \E i \in 1..Len(t) : t[i] = "\n"
    THEN CHOOSE i \in 1..Len(t) : t[i] = "\n" /\ \A j \in 1..(i - 1) : t[j] # "\n"
    ELSE 0

\* text.split("\n")
RECURSIVE SplitLines(_)
SplitLines(t) ==
    IF FirstBreak(t) = 0 THEN << t >>
    ELSE << SubSeq(t, 1, FirstBreak(t) - 1) >>
            \o SplitLines(SubSeq(t, FirstBreak(t) + 1, Len(t)))

StartsWith(line, label) == Len(line) > 0 /\ line[1] = label

FieldText(L, from, to) == Join(<< "\n" >>, SubSeq(L, from, to))

Generated == pc \in {"evaluate", "reflect", "tag", "update_skills", "apply_update",
                     "record"}

\* the serialized reflections of the n steps before step k, oldest first, with the
\* separator between neighbours
PrecedingReflections(k, n) ==
    [i \in 1..Max(2 * n - 1, 0) |->
        IF i % 2 = 1 THEN json_dumps(RawOf(epoch, k - n + (i - 1) \div 2))
        ELSE "\n---\n"]

\* C14: the reflection text given to generate at step k is the join, oldest first and
\* with the fixed separator, of the serialized reflections of the min(k-1,
\* REFLECTION_WINDOW) steps before k; it is empty at the first step and no piece of it
\* is the reflection of step k.
C14_GenerateSeesPrecedingReflections ==
    Generated =>
        /\ given_reflection
              = PrecedingReflections(step_index, Min(step_index - 1, REFLECTION_WINDOW))
        /\ step_index = 1 => given_reflection = << >>
        /\ \A i \in 1..Len(given_reflection) :
              i % 2 = 1 => given_reflection[i] # json_dumps(RawOf(epoch, step_index))

C14_Witness ==
    /\ pc = "evaluate"
    /\ step_index = 4
    /\ Len(given_reflection) = 5
    /\ given_reflection[1] = json_dumps(RawOf(epoch, 1))
    /\ given_reflection[5] = json_dumps(RawOf(epoch, 3))


\* what a step of main() may do to the skillbook, by the stage it starts from
SkillbookChangeStep ==
    /\ skillbook' # skillbook => pc \in {"create", "tag", "apply_update"}
    /\ pc \in {"for", "generate", "evaluate", "reflect", "update_skills", "record"}
          => skillbook' = skillbook
    /\ pc = "tag" =>
          \/ skillbook' = skillbook
          \/ /\ tag_pos <= Len(reflection.skill_tags)
             /\ pc' = "tag"
             /\ HasSkill(skillbook, reflection.skill_tags[tag_pos].id)
             /\ skillbook' = tag_skill(skillbook, reflection.skill_tags[tag_pos].id,
                                       reflection.skill_tags[tag_pos].tag)
             /\ Ids(skillbook') = Ids(skillbook)
             /\ \A i \in 1..Len(skillbook) :
                   /\ skillbook'[i].content = skillbook[i].content
                   /\ skillbook[i].tags \subseteq skillbook'[i].tags
    /\ (pc = "tag" /\ pc' = "update_skills") => skillbook' = skillbook
    /\ (pc = "apply_update" /\ skillbook' # skillbook) => applies' = applies + 1

\* C15: inside the loop the skillbook changes only in the tag loop (tag_skill of a
\* pair whose id exists) and in apply_update; generate, evaluate, reflect, the window
\* append and update_skills leave it as it is.  So Agent and Reflector of step k see the
\* book as the apply_update of step k-1 left it, and the SkillManager sees that book
\* with the valid tags of step k added.
C15_SkillbookChangesOnlyByTagAndApply == [][SkillbookChangeStep]_vars

C15_Witness ==
    /\ pc = "update_skills"
    /\ step_index = 2
    /\ applies = 1
    /\ file = NoFile
    /\ Len(skillbook) = 1
    /\ skillbook[1].tags = {"helpful", "harmful"}


\* the number of apply_update calls that have gone through, by the place in the loop
AppliedOncePerStep ==
    /\ pc \in {"generate", "evaluate", "reflect", "tag", "update_skills", "apply_update"}
          => applies = step_index - 1
    /\ pc \in {"record", "for"} => applies = step_index
    /\ LoopCompleted => applies = total_steps
    /\ pc = "failed" /\ ~LoopCompleted /\ error # "load" => applies = step_index - 1

\* apply_update takes the update of the step at hand and applies it whole or not at all
AppliedWholeStep ==
    /\ applies' # applies => pc = "apply_update" /\ pc' = "record" /\ applies' = applies + 1
    /\ pc = "apply_update" =>
          \/ /\ pc' = "record"
             /\ apply_update(skillbook, skill_manager_output.update).ok
             /\ skillbook' = apply_update(skillbook, skill_manager_output.update).book
             /\ step_index' = step_index
          \/ /\ pc' = "failed"
             /\ skillbook' = skillbook
    /\ (pc = "record" \/ pc = "for") => skillbook' = skillbook

\* C16: every SkillUpdate is applied exactly once, in the step that produced it and
\* before the next generate: when generate of step k runs, k-1 updates have been
\* applied, after apply_update of step k exactly k; no update is applied twice, skipped
\* or applied later, and a stage never finds a book with part of an update applied.
C16_UpdateAppliedExactlyOnce == []AppliedOncePerStep /\ [][AppliedWholeStep]_vars

C16_Witness ==
    /\ pc = "record"
    /\ step_index = 2
    /\ applies = 2
    /\ Len(skill_manager_output.update) = 2
    /\ Len(skillbook) = 2


\* C17: for every capacity N >= 0 (0 and 1 included), after k calls of
\* update_recent_reflections on an empty window the window holds exactly min(k, N)
\* entries, the last min(k, N) that were appended, oldest first.
C17_WindowHoldsLastMinKN ==
    pc = "window" =>
        /\ Len(win) = Min(Len(win_hist), win_cap)
        /\ win = LastN(win_hist, Min(Len(win_hist), win_cap))


\* what main() holds when a stage of step k has raised
FailedStepState ==
    /\ (pc = "failed" /\ error \in {"generate", "evaluate", "reflect"}) =>
          /\ Len(appended) = step_index - 1
          /\ applies = step_index - 1
          /\ Len(results) = step_index - 1
          /\ recent_reflections
                = LastN(appended, Min(Len(appended), REFLECTION_WINDOW))
    /\ (pc = "failed" /\ error \in {"update_skills", "apply_update"}) =>
          /\ Len(appended) = step_index
          /\ appended[step_index] = json_dumps(RawOf(epoch, step_index))
          /\ recent_reflections # << >>
          /\ recent_reflections[Len(recent_reflections)]
                = json_dumps(RawOf(epoch, step_index))
          /\ applies = step_index - 1
          /\ Len(results) = step_index - 1
    \* in the tag loop every valid pair passed so far is in the book
    /\ pc = "tag" =>
          \A j \in 1..(tag_pos - 1) :
              HasSkill(skillbook, reflection.skill_tags[j].id) =>
                  reflection.skill_tags[j].tag
                      \in SkillOf(skillbook, reflection.skill_tags[j].id).tags

\* nothing is undone: up to the tag loop a step leaves book and window alone, and a
\* stage that raises leaves book, window and results as it found them
NoRollbackStep ==
    /\ pc \in {"record", "for", "generate", "evaluate", "reflect"} =>
          /\ skillbook' = skillbook
          /\ recent_reflections' = recent_reflections
    /\ pc' = "failed" =>
          /\ skillbook' = skillbook
          /\ recent_reflections' = recent_reflections
          /\ results' = results
          /\ file' = file
    /\ pc = "update_skills" =>
          /\ skillbook' = skillbook
          /\ recent_reflections' = recent_reflections

StepFailed ==
    pc = "failed" /\ error \in {"generate", "evaluate", "reflect", "tag_skill",
                                "update_skills", "apply_update"}

SavedAtMostOnce ==
    /\ saves <= 1
    /\ saves = 1 => /\ LoopCompleted
                    /\ applies = total_steps
                    /\ Len(results) = total_steps
    /\ StepFailed => saves = 0

\* the file is written by the one save after the loop, and the test generate that
\* follows learns nothing
SaveStep ==
    /\ (file' # file \/ saves' # saves) =>
          /\ pc = "save"
          /\ pc' = "test"
          /\ step_index = total_steps
          /\ applies = total_steps
          /\ saves = 0
          /\ saves' = 1
          /\ file' = save(skillbook)
    /\ pc = "test" =>
          /\ skillbook' = skillbook
          /\ recent_reflections' = recent_reflections
          /\ appended' = appended
          /\ applies' = applies
          /\ results' = results

\* C19: the skillbook is saved at most once per run and only after the apply_update of
\* the last sample; when a stage of a step has raised, save was never called and the
\* file is as it was before the run; the test generate after the save applies no tag
\* and no update and appends nothing to the window.
C19_SavedOnceAfterLastStep == []SavedAtMostOnce /\ [][SaveStep]_vars

C19_Witness ==
    /\ pc = "done"
    /\ saves = 1
    /\ applies = total_steps
    /\ skillbook # << >>
    /\ file = save(skillbook)

====
